---- MODULE Spec2Model ----
(***************************************************************************)
(* Comment tree of the Comments component: normalisation of backend        *)
(* payloads, optimistic insertion of comments and replies, like toggling,  *)
(* and the reconciliation or rollback that follows each network response.  *)
(*                                                                         *)
(* A JSON object is a record whose DOMAIN holds exactly the keys that are   *)
(* present; a key holding the JavaScript value undefined is present with    *)
(* the value undefined (numbers) or undefinedStr (strings).  Each async     *)
(* function is split at its await: the part before the request is one      *)
(* action, the continuation that consumes the response is another.         *)
(***************************************************************************)
EXTENDS Integers, Sequences, FiniteSets, TLC

\* ------------------------------------------------------------------ bounds
MaxCalls == 2        \* calls started after the mount
MaxPending == 2      \* requests in flight at once
MaxClock == 2        \* distinct readings of Date.now()

\* ------------------------------------------------------- JavaScript values
undefined == 0 - 1000            \* a numeric field holding undefined
undefinedStr == "undefined"      \* a string field holding undefined
jsNull == [null |-> TRUE]        \* the JSON value null
jsUndefined == [null |-> FALSE]  \* undefined where an object is expected
NoParent == 0                    \* parentId null (falsy in !parentId)
NoError == "null"                \* error state null
materialId == 1                  \* the materialId prop

\* !v for a value that is an object, null or undefined
IsNull(v) == "null" \in DOMAIN v

\* x || y on numbers: undefined and 0 are falsy
OrNum(x, y) == IF x = undefined \/ x = 0 THEN y ELSE x
\* x || y on strings: undefined and "" are falsy
OrStr(x, y) == IF x = undefinedStr \/ x = "" THEN y ELSE x

\* o.k for a key that may be absent
GetNum(o, k) == IF k \in DOMAIN o THEN o[k] ELSE undefined
GetStr(o, k) == IF k \in DOMAIN o THEN o[k] ELSE undefinedStr
GetBool(o, k) == IF k \in DOMAIN o THEN o[k] ELSE FALSE

\* {...a, ...b}: every key of b, undefined values included, overwrites a
Spread(a, b) ==
  [k \in DOMAIN a \cup DOMAIN b |-> IF k \in DOMAIN b THEN b[k] ELSE a[k]]

\* ------------------------------------------------------------- normaliser
Placeholder_Null(defaultMaterialId, t) == jsNull

Placeholder(defaultMaterialId, t) ==
  [ id |-> -1,
    material_id |-> OrNum(defaultMaterialId, 0),
    user_id |-> 0,
    username |-> "Unknown",
    parent_id |-> NoParent,
    content |-> "Error loading comment",
    likes_count |-> 0,
    created_at |-> t,
    updated_at |-> t,
    replies |-> <<>>,
    is_optimistic |-> FALSE,
    is_liked |-> FALSE,
    user_avatar |-> "null" ]

RECURSIVE transformComment(_, _, _)
transformComment(backendComment, defaultMaterialId, t) ==
  IF IsNull(backendComment) THEN Placeholder(defaultMaterialId, t)
  ELSE
    [ id |-> GetNum(backendComment, "id"),
      material_id |-> GetNum(backendComment, "material_id"),
      user_id |-> GetNum(backendComment, "user_id"),
      username |-> OrStr(GetStr(backendComment, "username"), "Anonymous"),
      parent_id |-> OrNum(GetNum(backendComment, "parent_id"), NoParent),
      content |-> GetStr(backendComment, "content"),
      likes_count |-> OrNum(GetNum(backendComment, "likes_count"), 0),
      created_at |-> GetNum(backendComment, "created_at"),
      updated_at |-> OrNum(GetNum(backendComment, "updated_at"),
                           GetNum(backendComment, "created_at")),
      user_avatar |-> OrStr(GetStr(backendComment, "user_avatar"), "null"),
      replies |->
        IF "replies" \in DOMAIN backendComment
        THEN [i \in 1..Len(backendComment.replies) |->
                transformComment(backendComment.replies[i],
                                 GetNum(backendComment, "material_id"), t)]
        ELSE <<>>,
      is_liked |-> GetBool(backendComment, "is_liked") ]

TransformAll_SkipNull(arr, defaultMaterialId, t) ==
  LET kept == SelectSeq(arr, LAMBDA c : ~IsNull(c)) IN
  [i \in 1..Len(kept) |-> transformComment(kept[i], defaultMaterialId, t)]

TransformAll(arr, defaultMaterialId, t) ==
  [i \in 1..Len(arr) |-> transformComment(arr[i], defaultMaterialId, t)]

EmptyResult == [items |-> <<>>, total |-> 0, pages |-> 1, current_page |-> 1]

\* The list response: {items}, {comments}, a bare array ([array |-> ..]),
\* {data: [..]}, {data: {items}}, {data: {comments}}, tried in this order.
transformCommentsResponse(backendResponse, defaultMaterialId, t) ==
  IF IsNull(backendResponse) THEN EmptyResult
  ELSE IF "items" \in DOMAIN backendResponse THEN
    [ items |-> TransformAll(backendResponse.items, defaultMaterialId, t),
      total |-> OrNum(GetNum(backendResponse, "total"), 0),
      pages |-> OrNum(GetNum(backendResponse, "pages"), 1),
      current_page |-> OrNum(GetNum(backendResponse, "current_page"), 1) ]
  ELSE IF "comments" \in DOMAIN backendResponse THEN
    [ items |-> TransformAll(backendResponse.comments, defaultMaterialId, t),
      total |-> OrNum(GetNum(backendResponse, "total"),
                      Len(backendResponse.comments)),
      pages |-> OrNum(GetNum(backendResponse, "pages"), 1),
      current_page |-> OrNum(GetNum(backendResponse, "current_page"), 1) ]
  ELSE IF "array" \in DOMAIN backendResponse THEN
    [ items |-> TransformAll(backendResponse.array, defaultMaterialId, t),
      total |-> Len(backendResponse.array),
      pages |-> 1,
      current_page |-> 1 ]
  ELSE IF "data" \in DOMAIN backendResponse /\ ~IsNull(backendResponse.data) THEN
    LET data == backendResponse.data IN
    IF "array" \in DOMAIN data THEN
      [ items |-> TransformAll(data.array, defaultMaterialId, t),
        total |-> Len(data.array),
        pages |-> 1,
        current_page |-> 1 ]
    ELSE IF "items" \in DOMAIN data THEN
      [ items |-> TransformAll(data.items, defaultMaterialId, t),
        total |-> OrNum(GetNum(data, "total"), Len(data.items)),
        pages |-> OrNum(GetNum(data, "pages"), 1),
        current_page |-> OrNum(GetNum(data, "current_page"), 1) ]
    ELSE IF "comments" \in DOMAIN data THEN
      [ items |-> TransformAll(data.comments, defaultMaterialId, t),
        total |-> OrNum(GetNum(data, "total"), Len(data.comments)),
        pages |-> OrNum(GetNum(data, "pages"), 1),
        current_page |-> OrNum(GetNum(data, "current_page"), 1) ]
    ELSE EmptyResult
  ELSE EmptyResult

\* ------------------------------------------------------------ tree walks
\* updateCommentLikes: the node with the target id gets its count moved by
\* one and its flag set; any other node with replies is rebuilt recursively.
RECURSIVE updateCommentLikes(_, _, _)
updateCommentLikes(cs, targetId, increment) ==
  [i \in 1..Len(cs) |->
     IF cs[i].id = targetId
     THEN [cs[i] EXCEPT !.likes_count = @ + (IF increment THEN 1 ELSE -1),
                        !.is_liked = increment]
     ELSE IF Len(cs[i].replies) > 0
     THEN [cs[i] EXCEPT !.replies = updateCommentLikes(@, targetId, increment)]
     ELSE cs[i]]

\* foundInReplies !== null: findLikedStatus returns a boolean, never null
NotNull(foundInReplies) == foundInReplies \in BOOLEAN

\* findLikedStatus: the for loop over comments, from index i on.  replies is
\* always an array (truthy), so a comment that is not the target hands the
\* search to its replies and returns whatever that search returns.
RECURSIVE findLikedStatusFrom(_, _, _)
findLikedStatusFrom(cs, i, id) ==
  IF i > Len(cs) THEN FALSE
  ELSE IF cs[i].id = id THEN cs[i].is_liked
  ELSE LET foundInReplies == findLikedStatusFrom(cs[i].replies, 1, id) IN
       IF NotNull(foundInReplies) THEN foundInReplies
       ELSE findLikedStatusFrom(cs, i + 1, id)

findLikedStatus(cs, id) == findLikedStatusFrom(cs, 1, id)

\* findComment: depth-first search; jsNull when the id is nowhere
RECURSIVE findCommentFrom(_, _, _)
findCommentFrom(cs, i, id) ==
  IF i > Len(cs) THEN jsNull
  ELSE IF cs[i].id = id THEN cs[i]
  ELSE LET foundInReplies ==
             IF Len(cs[i].replies) > 0
             THEN findCommentFrom(cs[i].replies, 1, id) ELSE jsNull IN
       IF ~IsNull(foundInReplies) THEN foundInReplies
       ELSE findCommentFrom(cs, i + 1, id)

findComment(cs, id) == findCommentFrom(cs, 1, id)

updateCommentWithServerData_Appends(cs, updatedComment) ==
  Append(cs, updatedComment)

RECURSIVE updateCommentWithServerData(_, _)
updateCommentWithServerData(cs, updatedComment) ==
  [i \in 1..Len(cs) |->
     IF cs[i].id = updatedComment.id THEN updatedComment
     ELSE IF Len(cs[i].replies) > 0
     THEN [cs[i] EXCEPT !.replies = updateCommentWithServerData(@, updatedComment)]
     ELSE cs[i]]

\* addComment's three updaters of the root list
InsertOptimistic_RootFallback(prevComments, parentId, optimisticComment) ==
  IF parentId = NoParent \/ \A i \in 1..Len(prevComments) : prevComments[i].id # parentId
  THEN <<optimisticComment>> \o prevComments
  ELSE [i \in 1..Len(prevComments) |->
          IF prevComments[i].id = parentId
          THEN [prevComments[i] EXCEPT !.replies = Append(@, optimisticComment)]
          ELSE prevComments[i]]

InsertOptimistic(prevComments, parentId, optimisticComment) ==
  IF parentId = NoParent
  THEN <<optimisticComment>> \o prevComments
  ELSE [i \in 1..Len(prevComments) |->
          IF prevComments[i].id = parentId
          THEN [prevComments[i] EXCEPT !.replies = Append(@, optimisticComment)]
          ELSE prevComments[i]]

RemoveOptimistic(prevComments, parentId, optimisticId) ==
  IF parentId = NoParent
  THEN SelectSeq(prevComments, LAMBDA c : c.id # optimisticId)
  ELSE [i \in 1..Len(prevComments) |->
          IF prevComments[i].id = parentId
          THEN [prevComments[i] EXCEPT
                  !.replies = SelectSeq(@, LAMBDA r : r.id # optimisticId)]
          ELSE prevComments[i]]

ReplaceOptimistic_Upsert(prevComments, parentId, optimisticId, newComment) ==
  IF parentId = NoParent
  THEN IF \E i \in 1..Len(prevComments) : prevComments[i].id = optimisticId
       THEN [i \in 1..Len(prevComments) |->
               IF prevComments[i].id = optimisticId THEN newComment
               ELSE prevComments[i]]
       ELSE <<newComment>> \o prevComments
  ELSE [i \in 1..Len(prevComments) |->
          IF prevComments[i].id = parentId
          THEN [prevComments[i] EXCEPT
                  !.replies = [j \in 1..Len(@) |->
                                 IF @[j].id = optimisticId THEN newComment
                                 ELSE @[j]]]
          ELSE prevComments[i]]

ReplaceOptimistic(prevComments, parentId, optimisticId, newComment) ==
  IF parentId = NoParent
  THEN [i \in 1..Len(prevComments) |->
          IF prevComments[i].id = optimisticId THEN newComment
          ELSE prevComments[i]]
  ELSE [i \in 1..Len(prevComments) |->
          IF prevComments[i].id = parentId
          THEN [prevComments[i] EXCEPT
                  !.replies = [j \in 1..Len(@) |->
                                 IF @[j].id = optimisticId THEN newComment
                                 ELSE @[j]]]
          ELSE prevComments[i]]

\* ------------------------------------------------------------------ state
VARIABLES
  comments,         \* useState<Comment[]>: the root list, replies nested
  totalComments,
  totalPages,
  currentPage,
  isLoading,
  error,            \* NoError or a message
  isAuthenticated,  \* from useAuth()
  now,              \* the reading Date.now() gives
  pending,          \* the calls suspended at their await, with their closures
  ncalls,           \* calls started so far
  last              \* the step just taken: what ran, on what, its return value

\* The chat widget (GlobalChat), mounted beside the comments
VARIABLES
  isOpen,
  isMinimized,
  messages,         \* the messages shown, each with its id and room
  unreadCount,      \* per room id; a key that is absent counts as 0
  currentRoom,      \* the id of the room object, or NoRoom
  currentRoomId,
  view,             \* "menu", "rooms" or "chat"
  chatError,        \* the widget's error state
  chatIsLoading,    \* the widget's isLoading state
  socket,           \* "null", "disconnected" or "connected"
  onGroupPage,      \* window.location is the page of the group
  clicks,           \* the handleRoomClick calls suspended at an await
  nclicks,          \* handleRoomClick calls started so far
  nevents,          \* socket messages delivered so far
  polls             \* fetchUnreadCount requests in flight

commentVars == << comments, totalComments, totalPages, currentPage, isLoading,
                  error, isAuthenticated, now, pending, ncalls >>

chatVars == << isOpen, isMinimized, messages, unreadCount, currentRoom,
               currentRoomId, view, chatError, chatIsLoading, socket,
               onGroupPage, clicks, nclicks, nevents, polls >>

vars == << commentVars, last, chatVars >>

\* The signed-in user of the auth context
user == [id |-> 9, username |-> "alice"]

\* ----------------------------------------------------------- the backend
\* Backend comment records as the list endpoint returns them
BC(id, parent, likes, liked, replies) ==
  [ id |-> id, material_id |-> materialId, user_id |-> 8, username |-> "bob",
    content |-> "text", parent_id |-> parent, created_at |-> 1,
    likes_count |-> likes, is_liked |-> liked, replies |-> replies ]

\* Bodies the list endpoint may answer with.  The first lists 1 [3, 4], 2:
\* comment 1 and its first reply 3 are what findLikedStatus reaches, 4 and 2
\* are a later reply and a later root; each pair holds a liked and an
\* unliked comment.  The second holds a null element.
ListBodies ==
  { [ items |-> << BC(1, 0, 0, FALSE,
                      << BC(3, 1, 1, TRUE, <<>>), BC(4, 1, 2, TRUE, <<>>) >>),
                   BC(2, 0, 3, FALSE, <<>>) >>,
        total |-> 2, pages |-> 1, current_page |-> 1 ],
    [ data |-> [ comments |-> << jsNull, BC(2, 0, 0, FALSE, <<>>) >> ] ] }

\* Ids used as targets: the listed comments and one that is nowhere
ParentIds == {NoParent, 1, 3, 7}
LikeIds == {1, 2, 3, 4, 7}
Contents == {"Hello"}

RECURSIVE IdsOf(_)
IdsOf(cs) ==
  IF cs = <<>> THEN {}
  ELSE {cs[1].id} \cup IdsOf(cs[1].replies) \cup IdsOf(Tail(cs))

\* The create endpoint assigns the next id it has not given out
ServerId(cs) == CHOOSE s \in 42..(42 + MaxCalls) : s \notin IdsOf(cs)

Created(id, content, parentId) ==
  [ id |-> id, material_id |-> materialId, user_id |-> user.id,
    username |-> user.username, content |-> content, parent_id |-> parentId,
    created_at |-> 50, likes_count |-> 0, is_liked |-> FALSE ]

\* Bodies of a successful create: the record under data.comment, the bare
\* record, or an acknowledgement that carries no record
CreateBodies(cs, content, parentId) ==
  LET c == Created(ServerId(cs), content, parentId) IN
  { [data |-> [comment |-> c]], c, [data |-> [message |-> "created"]] }

\* Bodies of a successful like: nothing, or the comment under data.comment
\* with the server's counters, with or without the other fields
LikeBodies(id) ==
  { [success |-> TRUE],
    [data |-> [comment |-> [id |-> id, likes_count |-> 2, is_liked |-> TRUE]]],
    [data |-> [comment |-> [id |-> id, material_id |-> materialId,
                            user_id |-> 8, username |-> "bob",
                            content |-> "text", created_at |-> 1]]] }

\* ---------------------------------------------------------------- actions
\* Date.now() at clock reading t; now is the latest reading taken
DateNow(t) == 1700 + t

\* Another operation ran while these calls were suspended
Touch(calls) ==
  [i \in 1..Len(calls) |->
     IF calls[i].kind = "add"
     THEN [calls[i] EXCEPT !.alone = FALSE, !.before = <<>>]
     ELSE [calls[i] EXCEPT !.alone = FALSE]]

Without(calls, i) == [j \in 1..(Len(calls) - 1) |-> IF j < i THEN calls[j] ELSE calls[j + 1]]

\* What the step just taken was: the function and the part of it that ran,
\* how it ended, the id it was given, whether no other operation ran since
\* its call, and what it returned to its caller
Step(op, outcome, target, alone, ret) ==
  [op |-> op, outcome |-> outcome, target |-> target, alone |-> alone, ret |-> ret]

CanCall == ncalls < MaxCalls /\ Len(pending) < MaxPending

\* The value that reaches the catch block: the Error thrown for a non-success
\* response (errorData.error || fallback, errorData carrying no error), the
\* TypeError of reading a property of a null body, or the rejection of
\* fetch() or response.json()
Thrown(outcome, fallback) ==
  CASE outcome = "http_error" -> [message |-> fallback]
    [] outcome = "ok" -> [message |-> "Cannot read properties of null"]
    [] OTHER -> [message |-> "Failed to fetch"]

\* err instanceof Error ? err.message : 'An error occurred'
ErrorOf_Swallowed(err) == NoError
ErrorOf(err) ==
  IF "message" \in DOMAIN err THEN err.message ELSE "An error occurred"

\* The rooms fetchRooms delivered: two socket rooms and one group room
NoRoom == "null"
rooms ==
  << [id |-> "1", type |-> "public"],
     [id |-> "2", type |-> "private"],
     [id |-> "group_5", type |-> "group", group_id |-> 5] >>

RoomIds == {rooms[i].id : i \in 1..Len(rooms)}

\* The widget after construction, with the socket the context provides
ChatStart(sock, page) ==
  /\ isOpen = FALSE
  /\ isMinimized = FALSE
  /\ messages = <<>>
  /\ unreadCount = [r \in RoomIds |-> 0]
  /\ currentRoom = NoRoom
  /\ currentRoomId = NoRoom
  /\ view = "menu"
  /\ chatError = NoError
  /\ chatIsLoading = TRUE
  /\ socket = sock
  /\ onGroupPage = page
  /\ clicks = <<>>
  /\ nclicks = 0
  /\ nevents = 0
  /\ polls = 0

Init ==
  /\ ChatStart("null", FALSE)
  /\ comments = <<>>
  /\ totalComments = 0
  /\ totalPages = 1
  /\ currentPage = 1
  /\ isLoading = TRUE
  /\ error = NoError
  /\ isAuthenticated \in BOOLEAN
  /\ now = 1
  /\ pending = << [kind |-> "fetch", page |-> 1, alone |-> TRUE] >>
  /\ ncalls = 0
  /\ last = Step("fetchComments", "sent", 1, TRUE, jsNull)

\* The auth context signs the user in or out
AuthChange ==
  /\ UNCHANGED chatVars
  /\ /\ isAuthenticated' = ~isAuthenticated
     /\ UNCHANGED << comments, totalComments, totalPages, currentPage, isLoading,
                     error, now, pending, ncalls, last >>

\* fetchComments up to its await
fetchComments(page) ==
  /\ UNCHANGED chatVars
  /\ /\ CanCall
     /\ isLoading' = TRUE
     /\ error' = NoError
     /\ pending' = Append(Touch(pending), [kind |-> "fetch", page |-> page, alone |-> TRUE])
     /\ ncalls' = ncalls + 1
     /\ last' = Step("fetchComments", "sent", page, TRUE, jsNull)
     /\ UNCHANGED << comments, totalComments, totalPages, currentPage,
                     isAuthenticated, now >>

\* The catch block of fetchComments: only the message is set
fetchCommentsCatch_Clears(outcome) ==
  /\ error' = ErrorOf(Thrown(outcome, "Failed to fetch comments"))
  /\ comments' = <<>>
  /\ totalComments' = 0
  /\ UNCHANGED << totalPages, currentPage >>

fetchCommentsCatch(outcome) ==
  /\ error' = ErrorOf(Thrown(outcome, "Failed to fetch comments"))
  /\ UNCHANGED << comments, totalComments, totalPages, currentPage >>

\* fetchComments from the response on.  A null body is no error here:
\* transformCommentsResponse falls through to its empty result.
fetchCommentsResume(i, outcome, body) ==
  /\ UNCHANGED chatVars
  /\ /\ pending[i].kind = "fetch"
     /\ pending' = Touch(Without(pending, i))
     /\ isLoading' = FALSE
     /\ last' = Step("fetchCommentsResume", outcome, pending[i].page, pending[i].alone, jsNull)
     /\ IF outcome = "ok"
        THEN LET data == transformCommentsResponse(body, materialId, DateNow(now)) IN
             /\ comments' = data.items
             /\ totalComments' = data.total
             /\ totalPages' = data.pages
             /\ currentPage' = data.current_page
             /\ UNCHANGED error
        ELSE fetchCommentsCatch(outcome)
     /\ UNCHANGED << isAuthenticated, now, ncalls >>

optimisticCommentOf(content, parentId, t) ==
  [ id |-> -DateNow(t),
    material_id |-> materialId,
    user_id |-> OrNum(user.id, 0),
    username |-> OrStr(user.username, "Anonymous"),
    content |-> content,
    likes_count |-> 0,
    created_at |-> DateNow(t),
    updated_at |-> DateNow(t),
    parent_id |-> parentId,
    replies |-> <<>>,
    is_optimistic |-> TRUE,
    is_liked |-> FALSE,
    user_avatar |-> "null" ]

\* if (!isAuthenticated) at the head of addComment
AddRefused_NoCheck == FALSE
AddRefused == ~isAuthenticated

\* addComment up to its await; t is the reading Date.now() gives it
addComment(content, parentId, t) ==
  /\ UNCHANGED chatVars
  /\ IF AddRefused
     THEN /\ ncalls < MaxCalls
          /\ error' = "You must be logged in to add comments"
          /\ ncalls' = ncalls + 1
          /\ last' = Step("addComment", "unauthenticated", parentId, TRUE, jsNull)
          /\ UNCHANGED << comments, totalComments, totalPages, currentPage,
                          isLoading, isAuthenticated, now, pending >>
     ELSE LET optimisticComment == optimisticCommentOf(content, parentId, t)
              call == [ kind |-> "add", content |-> content, parentId |-> parentId,
                        optimisticComment |-> optimisticComment,
                        before |-> comments, alone |-> TRUE ] IN
          /\ CanCall
          /\ error' = NoError
          /\ comments' = InsertOptimistic(comments, parentId, optimisticComment)
          /\ totalComments' = IF parentId = NoParent THEN totalComments + 1
                              ELSE totalComments
          /\ isLoading' = TRUE
          /\ pending' = Append(Touch(pending), call)
          /\ ncalls' = ncalls + 1
          /\ now' = t
          /\ last' = Step("addComment", "sent", parentId, TRUE, jsNull)
          /\ UNCHANGED << totalPages, currentPage, isAuthenticated >>

\* responseData.data?.comment || responseData
RawComment(responseData) ==
  IF "data" \in DOMAIN responseData /\ "comment" \in DOMAIN responseData.data
  THEN responseData.data.comment
  ELSE responseData

\* The merge of the optimistic comment with the transformed server comment
NewComment(optimisticComment, transformedComment) ==
  Spread(Spread(optimisticComment, transformedComment),
         [ id |-> OrNum(transformedComment.id, optimisticComment.id),
           material_id |-> optimisticComment.material_id,
           user_id |-> optimisticComment.user_id,
           username |-> optimisticComment.username,
           content |-> optimisticComment.content,
           created_at |-> optimisticComment.created_at,
           updated_at |-> optimisticComment.updated_at,
           is_optimistic |-> FALSE ])

\* addComment from the response on.  outcome: "ok" (body is the parsed
\* body; reading responseData.data of a null body throws), "http_error"
\* (response.ok is false), "threw" (fetch or response.json() rejected)
addCommentResume(i, outcome, body) ==
  /\ UNCHANGED chatVars
  /\ LET call == pending[i]
         optimisticComment == call.optimisticComment
         parentId == call.parentId IN
     /\ call.kind = "add"
     /\ pending' = Touch(Without(pending, i))
     /\ isLoading' = FALSE
     /\ CASE outcome = "http_error" ->
               /\ comments' = RemoveOptimistic(comments, parentId, optimisticComment.id)
               /\ totalComments' = IF parentId = NoParent THEN totalComments - 1
                                   ELSE totalComments
               /\ error' = ErrorOf(Thrown(outcome, "Failed to add comment"))
               /\ last' = Step("addCommentResume", outcome, parentId, call.alone, jsNull)
          [] outcome = "ok" /\ ~IsNull(body) ->
               LET transformedComment ==
                     transformComment(RawComment(body), materialId, DateNow(now))
                   newComment == NewComment(optimisticComment, transformedComment) IN
               /\ comments' = ReplaceOptimistic(comments, parentId,
                                                optimisticComment.id, newComment)
               /\ last' = Step("addCommentResume", outcome, parentId, call.alone, newComment)
               /\ UNCHANGED << totalComments, error >>
          [] OTHER ->
               /\ error' = ErrorOf(Thrown(outcome, "Failed to add comment"))
               /\ last' = Step("addCommentResume", outcome, parentId, call.alone, jsNull)
               /\ UNCHANGED << comments, totalComments >>
     /\ UNCHANGED << totalPages, currentPage, isAuthenticated, now, ncalls >>

\* if (!isAuthenticated) at the head of toggleCommentLike
LikeRefused_NoCheck == FALSE
LikeRefused == ~isAuthenticated

\* toggleCommentLike up to its await.  isAlreadyLiked is read from the
\* comments of the render the handler was created in.
toggleCommentLike(commentId) ==
  /\ UNCHANGED chatVars
  /\ IF LikeRefused
     THEN /\ ncalls < MaxCalls
          /\ error' = "You must be logged in to like comments"
          /\ ncalls' = ncalls + 1
          /\ last' = Step("toggleCommentLike", "unauthenticated", commentId, TRUE, jsNull)
          /\ UNCHANGED << comments, totalComments, totalPages, currentPage,
                          isLoading, isAuthenticated, now, pending >>
     ELSE LET isAlreadyLiked == findLikedStatus(comments, commentId)
              call == [ kind |-> "like", commentId |-> commentId,
                        isAlreadyLiked |-> isAlreadyLiked,
                        comments |-> comments, alone |-> TRUE ] IN
          /\ CanCall
          /\ error' = NoError
          /\ comments' = updateCommentLikes(comments, commentId, ~isAlreadyLiked)
          /\ pending' = Append(Touch(pending), call)
          /\ ncalls' = ncalls + 1
          /\ last' = Step("toggleCommentLike", "sent", commentId, TRUE, jsNull)
          /\ UNCHANGED << totalComments, totalPages, currentPage, isLoading,
                          isAuthenticated, now >>

\* The merge of the comment found at call time with the server's comment
UpdatedComment(originalComment, transformedComment, isAlreadyLiked) ==
  IF IsNull(originalComment) THEN transformedComment
  ELSE Spread(Spread(originalComment, transformedComment),
         [ id |-> OrNum(transformedComment.id, originalComment.id),
           material_id |-> OrNum(transformedComment.material_id,
                                 originalComment.material_id),
           username |-> OrStr(transformedComment.username,
                              originalComment.username),
           content |-> OrStr(transformedComment.content,
                             originalComment.content),
           likes_count |-> IF transformedComment.likes_count # undefined
                           THEN transformedComment.likes_count
                           ELSE originalComment.likes_count,
           is_liked |-> IF transformedComment.is_liked \in BOOLEAN
                        THEN transformedComment.is_liked
                        ELSE ~isAlreadyLiked ])

\* The success branch of toggleCommentLike: a body that carries a comment
\* under data.comment is merged into the tree, any other body changes nothing
likeReconcile_Reverts(call, body) ==
  comments' = updateCommentLikes(comments, call.commentId, call.isAlreadyLiked)

likeReconcile(call, body) ==
  IF "data" \in DOMAIN body /\ "comment" \in DOMAIN body.data
  THEN LET transformedComment ==
             transformComment(body.data.comment, materialId, DateNow(now))
           originalComment == findComment(call.comments, call.commentId)
           updatedComment ==
             UpdatedComment(originalComment, transformedComment,
                            call.isAlreadyLiked) IN
       comments' = updateCommentWithServerData(comments, updatedComment)
  ELSE UNCHANGED comments

\* toggleCommentLike from the response on; outcomes as for addCommentResume
toggleCommentLikeResume(i, outcome, body) ==
  /\ UNCHANGED chatVars
  /\ LET call == pending[i]
         commentId == call.commentId
         isAlreadyLiked == call.isAlreadyLiked IN
     /\ call.kind = "like"
     /\ pending' = Touch(Without(pending, i))
     /\ last' = Step("toggleCommentLikeResume", outcome, commentId, call.alone, jsNull)
     /\ CASE outcome = "http_error" ->
               /\ comments' = updateCommentLikes(comments, commentId, isAlreadyLiked)
               /\ error' = ErrorOf(Thrown(outcome, "Failed to toggle comment like"))
          [] outcome = "ok" /\ ~IsNull(body) ->
               /\ likeReconcile(call, body)
               /\ UNCHANGED error
          [] OTHER ->
               /\ error' = ErrorOf(Thrown(outcome, "Failed to toggle comment like"))
               /\ UNCHANGED comments
     /\ UNCHANGED << totalComments, totalPages, currentPage, isLoading,
                     isAuthenticated, now, ncalls >>

Failures == {"http_error", "threw"}

FetchResume ==
  \E i \in 1..Len(pending) :
    /\ pending[i].kind = "fetch"
    /\ \/ \E body \in ListBodies : fetchCommentsResume(i, "ok", body)
       \/ \E o \in Failures : fetchCommentsResume(i, o, jsNull)

AddCall ==
  \E content \in Contents, parentId \in ParentIds, t \in now..MaxClock :
    addComment(content, parentId, t)

AddResume ==
  \E i \in 1..Len(pending) :
    /\ pending[i].kind = "add"
    /\ \/ \E body \in CreateBodies(comments, pending[i].content, pending[i].parentId) :
            addCommentResume(i, "ok", body)
       \/ addCommentResume(i, "ok", jsNull)
       \/ \E o \in Failures : addCommentResume(i, o, jsNull)

LikeCall == \E commentId \in LikeIds : toggleCommentLike(commentId)

LikeResume ==
  \E i \in 1..Len(pending) :
    /\ pending[i].kind = "like"
    /\ \/ \E body \in LikeBodies(pending[i].commentId) :
            toggleCommentLikeResume(i, "ok", body)
       \/ toggleCommentLikeResume(i, "ok", jsNull)
       \/ \E o \in Failures : toggleCommentLikeResume(i, o, jsNull)

\* Every operation of the component
Next ==
  \/ AuthChange
  \/ fetchComments(1)
  \/ FetchResume
  \/ AddCall
  \/ AddResume
  \/ LikeCall
  \/ LikeResume

Spec == Init /\ [][Next]_vars

\* The component while no like is toggled
NextAdd ==
  \/ AuthChange
  \/ fetchComments(1)
  \/ FetchResume
  \/ AddCall
  \/ AddResume

SpecAdd == Init /\ [][NextAdd]_vars

\* The component once the fetch of the mount has delivered a list
InitLoaded ==
  \E body \in ListBodies :
    LET data == transformCommentsResponse(body, materialId, DateNow(1)) IN
    /\ ChatStart("null", FALSE)
    /\ comments = data.items
    /\ totalComments = data.total
    /\ totalPages = data.pages
    /\ currentPage = data.current_page
    /\ isLoading = FALSE
    /\ error = NoError
    /\ isAuthenticated \in BOOLEAN
    /\ now = 1
    /\ pending = <<>>
    /\ ncalls = 0
    /\ last = Step("fetchCommentsResume", "ok", 1, TRUE, jsNull)

\* Likes toggled on a loaded list, nothing else running
NextLike ==
  \/ AuthChange
  \/ LikeCall
  \/ LikeResume

SpecLike == InitLoaded /\ [][NextLike]_vars

\* ------------------------------------------------- the list endpoint alone
\* A backend comment that carries no material_id, likes_count or is_liked
BCBare(id, replies) ==
  [ id |-> id, user_id |-> 8, username |-> "bob", content |-> "text",
    created_at |-> 1, replies |-> replies ]

\* Arrays of backend comments: empty, a null element alone, one comment, a
\* comment with a null reply followed by a null element and a comment, and
\* comments without material_id nested in each other
ListArrays ==
  { <<>>,
    << BCBare(5, << BCBare(6, << jsNull >>) >>) >>,
    << jsNull >>,
    << BC(1, 0, 2, TRUE, <<>>) >>,
    << BC(1, 0, 0, FALSE, << jsNull >>), jsNull, BC(2, 0, 3, FALSE, <<>>) >> }

\* The counters beside the array: all three omitted, or all three given
NoMeta == [k \in {} |-> 0]
ListMetas == { NoMeta, [total |-> 5, pages |-> 2, current_page |-> 2] }

\* The six shapes a list may arrive in; a bare array has no keys of its own
ShapeNames == {"items", "comments", "array", "data", "data.items", "data.comments"}

ListPayload(shape, arr, meta) ==
  CASE shape = "items" -> Spread([items |-> arr], meta)
    [] shape = "comments" -> Spread([comments |-> arr], meta)
    [] shape = "array" -> [array |-> arr]
    [] shape = "data" -> [data |-> [array |-> arr]]
    [] shape = "data.items" -> [data |-> Spread([items |-> arr], meta)]
    [] shape = "data.comments" -> [data |-> Spread([comments |-> arr], meta)]

\* Bodies that are in none of the shapes
OtherPayloads ==
  { jsNull, [message |-> "ok"], [data |-> jsNull], [data |-> [message |-> "ok"]] }

ListPayloads ==
  { ListPayload(shape, arr, meta) :
      shape \in ShapeNames, arr \in ListArrays, meta \in ListMetas }
  \cup OtherPayloads

FetchCalls == {i \in 1..Len(pending) : pending[i].kind = "fetch"}

FetchResumeAny ==
  \E i \in FetchCalls :
    \/ \E body \in ListPayloads : fetchCommentsResume(i, "ok", body)
    \/ \E o \in Failures : fetchCommentsResume(i, o, jsNull)

\* The component while it only loads its list
NextFetch ==
  \/ fetchComments(1)
  \/ FetchResumeAny

SpecFetch == Init /\ [][NextFetch]_vars

\* Submissions while lists of any size, the empty one included, arrive
NextTotal ==
  \/ FetchResumeAny
  \/ AddCall
  \/ AddResume

SpecTotal == Init /\ [][NextTotal]_vars

\* ------------------------------------------------------------ chat widget
MaxClicks == 2       \* handleRoomClick calls
MaxEvents == 2       \* socket messages delivered
MaxPolls == 1        \* fetchUnreadCount requests in flight at once

\* localStorage.getItem('token'): the user is signed in
token == "token"

\* rooms.find(r => r.id === roomId)
FindRoom(roomId) ==
  IF \E i \in 1..Len(rooms) : rooms[i].id = roomId
  THEN rooms[CHOOSE i \in 1..Len(rooms) : rooms[i].id = roomId]
  ELSE jsNull

\* Room ids a click may carry: the listed rooms and one that is not listed
ClickIds == RoomIds \cup {"9"}
SocketRoomIds == {"1", "2"}

\* currentRoomId.toString().startsWith('group_')
IsGroupRoom(roomId) == roomId = "group_5"

\* isOnGroupPage: the room is a group room and the page shown is that group's
IsOnGroupPage(roomId) == IsGroupRoom(roomId) /\ onGroupPage

\* The page without the Comments component
CommentsUnmounted ==
  /\ comments = <<>>
  /\ totalComments = 0
  /\ totalPages = 1
  /\ currentPage = 1
  /\ isLoading = FALSE
  /\ error = NoError
  /\ isAuthenticated = TRUE
  /\ now = 1
  /\ pending = <<>>
  /\ ncalls = 0
  /\ last = Step("mount", "done", NoRoom, TRUE, jsNull)

InitChat ==
  /\ CommentsUnmounted
  /\ \E sock \in {"null", "disconnected", "connected"}, page \in BOOLEAN :
       ChatStart(sock, page)

\* The effect of lines 842-850, run after a render in which isOpen,
\* isMinimized or currentRoom changed: the current room's count is reset
AfterResetEffect(unread, open, minimized, room) ==
  IF /\ open /\ ~minimized /\ room # NoRoom
     /\ << open, minimized, room >> # << isOpen, isMinimized, currentRoom >>
  THEN [unread EXCEPT ![room] = 0]
  ELSE unread

\* The Chat button
OpenChat ==
  /\ ~isOpen
  /\ isOpen' = TRUE
  /\ view' = "menu"
  /\ unreadCount' = AfterResetEffect(unreadCount, TRUE, isMinimized, currentRoom)
  /\ last' = Step("open", "done", currentRoom, TRUE, jsNull)
  /\ UNCHANGED << isMinimized, messages, currentRoom, currentRoomId, chatError,
                  chatIsLoading, socket, onGroupPage, clicks, nclicks, nevents,
                  polls, commentVars >>

\* The X button
CloseChat ==
  /\ isOpen
  /\ isOpen' = FALSE
  /\ view' = "menu"
  /\ last' = Step("close", "done", currentRoom, TRUE, jsNull)
  /\ UNCHANGED << isMinimized, messages, unreadCount, currentRoom, currentRoomId,
                  chatError, chatIsLoading, socket, onGroupPage, clicks, nclicks,
                  nevents, polls, commentVars >>

\* The socket of the context connects
SocketConnect ==
  /\ socket = "disconnected"
  /\ socket' = "connected"
  /\ UNCHANGED << isOpen, isMinimized, messages, unreadCount, currentRoom,
                  currentRoomId, view, chatError, chatIsLoading, onGroupPage,
                  clicks, nclicks, nevents, polls, commentVars, last >>

\* What handleRoomClick does once the socket is connected, up to its next
\* await: leave_chat for the room of its closure, or the REST join at once
AfterConnect_NoLeave(call) ==
  [call EXCEPT !.pc = "restJoin", !.trace = Append(@, "rest_join")]

AfterConnect(call) ==
  IF call.currentRoomId # NoRoom /\ ~IsOnGroupPage(call.currentRoomId)
  THEN [call EXCEPT !.pc = "leaving", !.trace = Append(@, "leave_chat")]
  ELSE [call EXCEPT !.pc = "restJoin", !.trace = Append(@, "rest_join")]

\* handleRoomClick returns before any await
ClickReturns(roomId, message) ==
  /\ chatError' = message
  /\ chatIsLoading' = FALSE
  /\ last' = Step("handleRoomClick", "returned", roomId, TRUE, jsNull)
  /\ UNCHANGED << isOpen, isMinimized, messages, unreadCount, currentRoom,
                  currentRoomId, view, socket, onGroupPage, clicks, nevents,
                  polls >>

\* handleRoomClick up to its first await
handleRoomClick(roomId) ==
  LET targetRoom == FindRoom(roomId)
      call == [ roomId |-> roomId, currentRoomId |-> currentRoomId,
                pc |-> "start", trace |-> <<>> ] IN
  /\ isOpen
  /\ nclicks < MaxClicks
  /\ nclicks' = nclicks + 1
  /\ UNCHANGED commentVars
  /\ IF token = "null" THEN ClickReturns(roomId, "Authentication required")
     ELSE IF IsNull(targetRoom) THEN ClickReturns(roomId, "Invalid room selection")
     ELSE IF targetRoom.type = "group" THEN
       /\ currentRoom' = roomId
       /\ currentRoomId' = roomId
       /\ chatError' = NoError
       /\ chatIsLoading' = TRUE
       /\ unreadCount' = AfterResetEffect(unreadCount, isOpen, isMinimized, roomId)
       /\ clicks' = Append(clicks, [call EXCEPT !.pc = "groupFetch"])
       /\ last' = Step("handleRoomClick", "sent", roomId, TRUE, jsNull)
       /\ UNCHANGED << isOpen, isMinimized, messages, view, socket, onGroupPage,
                       nevents, polls >>
     ELSE IF socket = "null" THEN ClickReturns(roomId, "Chat connection not ready")
     ELSE
       /\ chatError' = NoError
       /\ chatIsLoading' = TRUE
       /\ clicks' = Append(clicks,
                           IF socket # "connected"
                           THEN [call EXCEPT !.pc = "waitConnect"]
                           ELSE AfterConnect(call))
       /\ last' = Step("handleRoomClick", "sent", roomId, TRUE, jsNull)
       /\ UNCHANGED << isOpen, isMinimized, messages, unreadCount, currentRoom,
                       currentRoomId, view, socket, onGroupPage, nevents, polls >>

\* A suspended handleRoomClick moves on to its next await
ClickMoves(i, call) ==
  /\ clicks' = [clicks EXCEPT ![i] = call]
  /\ last' = Step("handleRoomClick", call.pc, call.roomId, TRUE, jsNull)
  /\ UNCHANGED << isOpen, isMinimized, messages, unreadCount, currentRoom,
                  currentRoomId, view, chatError, chatIsLoading, socket,
                  onGroupPage, nclicks, nevents, polls, commentVars >>

\* The outer catch and finally of handleRoomClick
ClickFails_KeepsRoom(i, message) ==
  /\ chatError' = message
  /\ chatIsLoading' = FALSE
  /\ clicks' = Without(clicks, i)
  /\ last' = Step("handleRoomClick", "failed", clicks[i].roomId, TRUE, jsNull)
  /\ UNCHANGED << isOpen, isMinimized, messages, unreadCount, currentRoom,
                  currentRoomId, view, socket, onGroupPage, nclicks, nevents,
                  polls, commentVars >>

ClickFails(i, message) ==
  /\ chatError' = message
  /\ currentRoom' = NoRoom
  /\ currentRoomId' = NoRoom
  /\ chatIsLoading' = FALSE
  /\ clicks' = Without(clicks, i)
  /\ last' = Step("handleRoomClick", "failed", clicks[i].roomId, TRUE, jsNull)
  /\ UNCHANGED << isOpen, isMinimized, messages, unreadCount, view, socket,
                  onGroupPage, nclicks, nevents, polls, commentVars >>

\* The wait for the socket's connect event, at most 5 seconds
connectResolved(i) ==
  /\ clicks[i].pc = "waitConnect"
  /\ socket = "connected"
  /\ ClickMoves(i, AfterConnect(clicks[i]))

connectTimeout(i) ==
  /\ clicks[i].pc = "waitConnect"
  /\ ClickFails(i, "Chat connection failed")

\* leave_chat acknowledged, or one second passed: the REST join is issued
leaveDone(i) ==
  /\ clicks[i].pc = "leaving"
  /\ ClickMoves(i, [clicks[i] EXCEPT !.pc = "restJoin",
                                     !.trace = Append(@, "rest_join")])

\* The REST join answered, failed or was rejected: join_chat is emitted
restJoinDone(i) ==
  /\ clicks[i].pc = "restJoin"
  /\ ClickMoves(i, [clicks[i] EXCEPT !.pc = "socketJoin",
                                     !.trace = Append(@, "join_chat")])

\* join_chat acknowledged ("ok" or "error"), or 5 seconds passed ("timeout")
joinAck(i, result) ==
  /\ clicks[i].pc = "socketJoin"
  /\ CASE result = "ok" ->
            ClickMoves(i, [clicks[i] EXCEPT !.pc = "fetchData",
                                            !.trace = Append(@, "fetch_data")])
       [] result = "error" -> ClickFails(i, "Join refused")
       [] OTHER -> ClickFails(i, "Join timeout")

\* The messages a room's endpoint returns, already reversed
FetchedMessages(roomId) == << [id |-> 100, room |-> roomId] >>

\* Promise.all of the two data fetches settled: "ok" with a list of messages,
\* "not_ok" with an HTTP error status, "bad_shape" with a body that holds no
\* list, "rejected" when a fetch or a body could not be read
DataOutcomes == {"ok", "not_ok", "bad_shape", "rejected"}

dataFetched(i, outcome) ==
  LET roomId == clicks[i].roomId IN
  /\ clicks[i].pc = "fetchData"
  /\ IF outcome # "rejected"
     THEN /\ messages' = CASE outcome = "ok" -> FetchedMessages(roomId)
                            [] outcome = "bad_shape" -> <<>>
                            [] OTHER -> messages
          /\ chatError' = IF outcome = "bad_shape" THEN "Failed to load messages"
                          ELSE chatError
          /\ currentRoom' = roomId
          /\ currentRoomId' = roomId
          /\ view' = "chat"
          /\ unreadCount' = AfterResetEffect([unreadCount EXCEPT ![roomId] = 0], isOpen,
                                            isMinimized, roomId)
          /\ chatIsLoading' = FALSE
          /\ clicks' = Without(clicks, i)
          /\ last' = Step("handleRoomClick", "joined", roomId, TRUE, jsNull)
          /\ UNCHANGED << isOpen, isMinimized, socket, onGroupPage, nclicks,
                          nevents, polls, commentVars >>
     ELSE ClickFails(i, "Failed to fetch")

\* The group branch: Promise.all of the group's two fetches settled
groupFetched(i, outcome) ==
  LET roomId == clicks[i].roomId IN
  /\ clicks[i].pc = "groupFetch"
  /\ chatIsLoading' = FALSE
  /\ clicks' = Without(clicks, i)
  /\ IF outcome = "ok"
     THEN /\ messages' = FetchedMessages(roomId)
          /\ view' = "chat"
          /\ last' = Step("handleRoomClick", "joined", roomId, TRUE, jsNull)
          /\ UNCHANGED chatError
     ELSE /\ chatError' = "Error loading group data"
          /\ last' = Step("handleRoomClick", "failed", roomId, TRUE, jsNull)
          /\ UNCHANGED << messages, view >>
  /\ UNCHANGED << isOpen, isMinimized, unreadCount, currentRoom, currentRoomId,
                  socket, onGroupPage, nclicks, nevents, polls, commentVars >>

\* socket.on('new_message'): a message of a socket room
newMessage(roomId) ==
  /\ socket = "connected"
  /\ nevents < MaxEvents
  /\ nevents' = nevents + 1
  /\ IF roomId = currentRoom
     THEN /\ messages' = Append(messages, [id |-> nevents' , room |-> roomId])
          /\ unreadCount' = IF ~isOpen \/ isMinimized
                            THEN [unreadCount EXCEPT ![roomId] = @ + 1]
                            ELSE unreadCount
     ELSE /\ unreadCount' = [unreadCount EXCEPT ![roomId] = @ + 1]
          /\ UNCHANGED messages
  /\ last' = Step("new_message", "done", roomId, TRUE, jsNull)
  /\ UNCHANGED << isOpen, isMinimized, currentRoom, currentRoomId, view,
                  chatError, chatIsLoading, socket, onGroupPage, clicks, nclicks,
                  polls, commentVars >>

\* socket.on('group_chat_message'): a message of the group
groupChatMessage(roomId) ==
  LET roomMatch == roomId = currentRoom IN
  /\ socket = "connected"
  /\ nevents < MaxEvents
  /\ nevents' = nevents + 1
  /\ messages' = IF roomMatch /\ ~onGroupPage
                 THEN Append(messages, [id |-> nevents', room |-> roomId])
                 ELSE messages
  /\ unreadCount' = IF ~roomMatch \/ ~isOpen \/ isMinimized
                    THEN [unreadCount EXCEPT ![roomId] = @ + 1]
                    ELSE unreadCount
  /\ last' = Step("group_chat_message", "done", roomId, TRUE, jsNull)
  /\ UNCHANGED << isOpen, isMinimized, currentRoom, currentRoomId, view,
                  chatError, chatIsLoading, socket, onGroupPage, clicks, nclicks,
                  polls, commentVars >>

\* The 30-second interval, set while the widget is closed or minimized, calls
\* fetchUnreadCount, which sends its request
fetchUnreadCount ==
  /\ ~isOpen \/ isMinimized
  /\ token # "null"
  /\ polls < MaxPolls
  /\ polls' = polls + 1
  /\ last' = Step("fetchUnreadCount", "sent", NoRoom, TRUE, jsNull)
  /\ UNCHANGED << isOpen, isMinimized, messages, unreadCount, currentRoom,
                  currentRoomId, view, chatError, chatIsLoading, socket,
                  onGroupPage, clicks, nclicks, nevents, commentVars >>

\* The unread counts the server may report: none, or two unread in room 1
UnreadBodies ==
  { [success |-> TRUE, unread_counts |-> [r \in RoomIds |-> 0]],
    [success |-> TRUE, unread_counts |-> [r \in RoomIds |-> IF r = "1" THEN 2 ELSE 0]],
    [success |-> FALSE] }

\* fetchUnreadCount from the response on
fetchUnreadCountResume(outcome, data) ==
  /\ polls > 0
  /\ polls' = polls - 1
  /\ unreadCount' = IF outcome = "ok" /\ data.success /\ "unread_counts" \in DOMAIN data
                    THEN data.unread_counts
                    ELSE unreadCount
  /\ last' = Step("fetchUnreadCountResume", outcome, NoRoom, TRUE, jsNull)
  /\ UNCHANGED << isOpen, isMinimized, messages, currentRoom, currentRoomId,
                  view, chatError, chatIsLoading, socket, onGroupPage, clicks,
                  nclicks, nevents, commentVars >>

RoomClick == \E roomId \in ClickIds : handleRoomClick(roomId)

ClickStep ==
  \E i \in 1..Len(clicks) :
    \/ connectResolved(i)
    \/ connectTimeout(i)
    \/ leaveDone(i)
    \/ restJoinDone(i)
    \/ \E result \in {"ok", "error", "timeout"} : joinAck(i, result)
    \/ \E outcome \in DataOutcomes : dataFetched(i, outcome)
    \/ \E outcome \in {"ok", "rejected"} : groupFetched(i, outcome)

SocketMessage ==
  \/ \E roomId \in SocketRoomIds : newMessage(roomId)
  \/ groupChatMessage("group_5")

UnreadPoll ==
  \/ fetchUnreadCount
  \/ \E data \in UnreadBodies : fetchUnreadCountResume("ok", data)
  \/ fetchUnreadCountResume("http_error", jsNull)

\* Room switches alone
NextRoom ==
  \/ OpenChat
  \/ CloseChat
  \/ SocketConnect
  \/ RoomClick
  \/ ClickStep

SpecRoom == InitChat /\ [][NextRoom]_vars

\* Every operation of the widget
NextChat ==
  \/ OpenChat
  \/ CloseChat
  \/ SocketConnect
  \/ RoomClick
  \/ ClickStep
  \/ SocketMessage
  \/ UnreadPoll

SpecChat == InitChat /\ [][NextChat]_vars

\* ----------------------------------------------------------- properties
\* All nodes of the forest, parents before their replies
RECURSIVE NodeSeq(_)
NodeSeq(cs) ==
  IF cs = <<>> THEN <<>>
  ELSE <<cs[1]>> \o NodeSeq(cs[1].replies) \o NodeSeq(Tail(cs))

Nodes(cs) == {NodeSeq(cs)[i] : i \in 1..Len(NodeSeq(cs))}

IsOptimistic(n) == "is_optimistic" \in DOMAIN n /\ n.is_optimistic
NegativeId(n) == n.id # undefined /\ n.id < 0
PositiveId(n) == n.id > 0

\* id, likes_count and is_liked of every node, in forest order
LikeStates(cs) ==
  [i \in 1..Len(NodeSeq(cs)) |->
     [ id |-> NodeSeq(cs)[i].id, likes_count |-> NodeSeq(cs)[i].likes_count,
       is_liked |-> NodeSeq(cs)[i].is_liked ]]

AddCalls == {i \in 1..Len(pending) : pending[i].kind = "add"}
LikeCalls == {i \in 1..Len(pending) : pending[i].kind = "like"}

\* C1: an authenticated root submission of text T puts exactly one new node
\* at the front of the root list, with a negative id, is_optimistic = true
\* and content T; when the create succeeds with a server comment of positive
\* id S and nothing else ran in between, the front holds a node with id S,
\* is_optimistic = false and content T, and no node of the tree carries the
\* synthesized id any more.
C1_RootSubmitThenReconcile ==
  [][ /\ \A content \in Contents, t \in now..MaxClock :
           (isAuthenticated /\ addComment(content, NoParent, t)) =>
             /\ Len(comments') = Len(comments) + 1
             /\ Tail(comments') = comments
             /\ NegativeId(comments'[1])
             /\ IsOptimistic(comments'[1])
             /\ comments'[1].content = content
      /\ \A i \in AddCalls :
           \A body \in CreateBodies(comments, pending[i].content, pending[i].parentId) :
             ( /\ pending[i].parentId = NoParent
               /\ pending[i].alone
               /\ GetNum(RawComment(body), "id") > 0
               /\ addCommentResume(i, "ok", body) ) =>
               /\ comments'[1].id = RawComment(body).id
               /\ "is_optimistic" \in DOMAIN comments'[1]
               /\ comments'[1].is_optimistic = FALSE
               /\ comments'[1].content = pending[i].content
               /\ pending[i].optimisticComment.id \notin IdsOf(comments')
    ]_vars

\* C2: addComment called while isAuthenticated is false changes neither the
\* tree nor totalComments, issues no request, returns null and sets error to
\* the authentication-required message.
C2_UnauthenticatedAddRefused ==
  [][ ( /\ ~isAuthenticated
        /\ ncalls' # ncalls
        /\ last'.op = "addComment" ) =>
        /\ comments' = comments
        /\ totalComments' = totalComments
        /\ pending' = pending
        /\ last'.ret = jsNull
        /\ error' = "You must be logged in to add comments"
    ]_vars

C2_Witness ==
  /\ last.op = "addComment"
  /\ last.outcome = "unauthenticated"
  /\ ~isAuthenticated
  /\ comments # <<>>
  /\ error = "You must be logged in to add comments"

\* C3: when the create request returns a non-success response and no other
\* operation ran since the submission, the tree is again the tree before the
\* submission, error is non-null and addComment returns null.
C3_HttpErrorRestoresTree ==
  [][ \A i \in AddCalls :
        (pending[i].alone /\ addCommentResume(i, "http_error", jsNull)) =>
          /\ comments' = pending[i].before
          /\ error' # NoError
          /\ last'.ret = jsNull
    ]_vars

\* C4: once no addComment call is in flight any more, whatever the outcomes
\* were, no node of the tree has is_optimistic = true.
C4_NoOptimisticNodeLeftBehind ==
  AddCalls = {} => \A n \in Nodes(comments) : ~IsOptimistic(n)

\* C5: no node has a negative id together with is_optimistic = false, and no
\* node has a positive id together with is_optimistic = true.
C5_IdSignMatchesOptimisticFlag ==
  \A n \in Nodes(comments) :
    /\ ~(NegativeId(n) /\ ~IsOptimistic(n))
    /\ ~(PositiveId(n) /\ IsOptimistic(n))

\* C6: all node ids of the whole tree are pairwise distinct.
C6_IdsPairwiseDistinct ==
  Cardinality(IdsOf(comments)) = Len(NodeSeq(comments))

\* C7: every node has likes_count >= 0, after any sequence of toggles with
\* their responses arriving in any interleaving.
C7_LikesNeverNegative ==
  \A n \in Nodes(comments) : n.likes_count >= 0

\* C8: a single toggleCommentLike on a comment of the tree whose request
\* returns non-success, nothing else running in between, first shows the
\* toggled like state and then leaves the comment's likes_count and is_liked
\* equal to their values before the toggle.
C8_FailedToggleRestoresLikeState ==
  [][ \A i \in LikeCalls :
        ( /\ pending[i].alone
          /\ pending[i].commentId \in IdsOf(pending[i].comments)
          /\ toggleCommentLikeResume(i, "http_error", jsNull) ) =>
          LET before == findComment(pending[i].comments, pending[i].commentId)
              shown == findComment(comments, pending[i].commentId)
              after == findComment(comments', pending[i].commentId) IN
          /\ shown.is_liked = ~before.is_liked
          /\ shown.likes_count =
               before.likes_count + (IF shown.is_liked THEN 1 ELSE -1)
          /\ after.likes_count = before.likes_count
          /\ after.is_liked = before.is_liked
    ]_vars

\* C9: toggleCommentLike on a comment of the tree, at any depth and position,
\* at once negates its is_liked and moves its likes_count by +1 when it
\* becomes liked and by -1 when it becomes unliked; likes_count and is_liked
\* of every other node are unchanged.
C9_ToggleNegatesLikeState ==
  [][ \A commentId \in LikeIds :
        ( /\ isAuthenticated
          /\ commentId \in IdsOf(comments)
          /\ toggleCommentLike(commentId) ) =>
          LET before == LikeStates(comments)
              after == LikeStates(comments') IN
          /\ Len(after) = Len(before)
          /\ \A k \in 1..Len(before) :
               IF before[k].id = commentId
               THEN /\ after[k].is_liked = ~before[k].is_liked
                    /\ after[k].likes_count =
                         before[k].likes_count + (IF after[k].is_liked THEN 1 ELSE -1)
               ELSE after[k] = before[k]
    ]_vars

\* C10: addComment with a parentId that matches no node of the current tree
\* leaves the tree unchanged, in its optimistic step and in the step that
\* handles the response, whether the request succeeded or failed.
C10_MissingParentLeavesTree ==
  [][ ( /\ ncalls' # ncalls \/ Len(pending') < Len(pending)
        /\ last'.op \in {"addComment", "addCommentResume"}
        /\ last'.target # NoParent
        /\ last'.target \notin IdsOf(comments) ) =>
        comments' = comments
    ]_vars

C10_Witness ==
  /\ last.op = "addCommentResume"
  /\ last.outcome = "ok"
  /\ last.target = 7
  /\ 7 \notin IdsOf(comments)
  /\ comments # <<>>
  /\ ~IsNull(last.ret)

\* C11: addComment with a parentId that is the id of a node of the tree, a
\* root comment or a nested reply, appends the synthesized comment to that
\* node's replies in its optimistic step; when the create succeeds and nothing
\* else ran in between, the reconciled record stands there in its place.
C11_ReplyAppendedAtAnyDepth ==
  [][ /\ \A content \in Contents, parentId \in ParentIds \ {NoParent},
           t \in now..MaxClock :
           ( /\ isAuthenticated
             /\ parentId \in IdsOf(comments)
             /\ addComment(content, parentId, t) ) =>
             findComment(comments', parentId).replies =
               Append(findComment(comments, parentId).replies,
                      optimisticCommentOf(content, parentId, t))
      /\ \A i \in AddCalls :
           \A body \in CreateBodies(comments, pending[i].content, pending[i].parentId) :
             ( /\ pending[i].parentId # NoParent
               /\ pending[i].parentId \in IdsOf(comments)
               /\ pending[i].alone
               /\ addCommentResume(i, "ok", body) ) =>
               LET replies == findComment(comments', pending[i].parentId).replies IN
               /\ \E k \in 1..Len(replies) : replies[k] = last'.ret
               /\ \A k \in 1..Len(replies) : IsOptimistic(replies[k]) = FALSE
    ]_vars

\* C12: transformComment of null or undefined is the fixed placeholder: id -1,
\* username "Unknown", content "Error loading comment", no replies,
\* likes_count 0; it is never null.  So is every element that a loaded list
\* shows in the place of a null element of the payload.
IsPlaceholder(c) ==
  /\ ~IsNull(c)
  /\ c.id = -1
  /\ c.username = "Unknown"
  /\ c.content = "Error loading comment"
  /\ c.replies = <<>>
  /\ c.likes_count = 0

C12_NullGivesPlaceholder ==
  [][ /\ \A b \in {jsNull, jsUndefined} :
           IsPlaceholder(transformComment(b, materialId, DateNow(now)))
      /\ \A i \in FetchCalls :
           \A shape \in ShapeNames, arr \in ListArrays, meta \in ListMetas :
             fetchCommentsResume(i, "ok", ListPayload(shape, arr, meta)) =>
               \A k \in 1..Len(arr) :
                 IsNull(arr[k]) => k <= Len(comments') /\ IsPlaceholder(comments'[k])
    ]_vars

C12_Witness ==
  /\ last.op = "fetchCommentsResume"
  /\ last.outcome = "ok"
  /\ Len(comments) = 3
  /\ IsPlaceholder(comments[2])
  /\ IsPlaceholder(comments[1].replies[1])

\* C13: a list payload in any of the six shapes gives a root list as long as
\* the payload's array whose element k is transformComment of the array's
\* element k; a payload in none of the shapes gives an empty list, total 0,
\* pages 1 and current_page 1.
C13_ListShapesNormalised ==
  [][ \A i \in FetchCalls :
        /\ \A shape \in ShapeNames, arr \in ListArrays, meta \in ListMetas :
             fetchCommentsResume(i, "ok", ListPayload(shape, arr, meta)) =>
               /\ Len(comments') = Len(arr)
               /\ \A k \in 1..Len(arr) :
                    comments'[k] = transformComment(arr[k], materialId, DateNow(now))
        /\ \A body \in OtherPayloads :
             fetchCommentsResume(i, "ok", body) =>
               /\ comments' = <<>>
               /\ totalComments' = 0
               /\ totalPages' = 1
               /\ currentPage' = 1
    ]_vars

C13_Witness ==
  /\ last.op = "fetchCommentsResume"
  /\ last.outcome = "ok"
  /\ Len(comments) = 3
  /\ comments[1].id = 1
  /\ comments[2].id = -1
  /\ comments[3].id = 2
  /\ totalPages = 2

\* C14: for each of the six shapes, a payload that carries no total, pages
\* and current_page gives total = the length of its array, pages = 1 and
\* current_page = 1.
C14_DefaultsWhenCountersOmitted ==
  [][ \A i \in FetchCalls :
        \A shape \in ShapeNames, arr \in ListArrays :
          fetchCommentsResume(i, "ok", ListPayload(shape, arr, NoMeta)) =>
            /\ totalComments' = Len(arr)
            /\ totalPages' = 1
            /\ currentPage' = 1
    ]_vars

\* C15: a fetchComments whose response is a non-success one or whose request
\* fails leaves comments, totalComments, totalPages and currentPage as they
\* were, in the step that sends the request and in the step that handles the
\* failure; error is then non-null and isLoading false.
C15_FailedFetchKeepsState ==
  [][ /\ fetchComments(1) =>
           UNCHANGED << comments, totalComments, totalPages, currentPage >>
      /\ \A i \in FetchCalls, o \in Failures :
           fetchCommentsResume(i, o, jsNull) =>
             /\ UNCHANGED << comments, totalComments, totalPages, currentPage >>
             /\ error' # NoError
             /\ isLoading' = FALSE
    ]_vars

C15_Witness ==
  /\ last.op = "fetchCommentsResume"
  /\ last.outcome \in Failures
  /\ last.alone
  /\ Len(comments) = 3
  /\ totalComments = 5
  /\ currentPage = 2
  /\ error # NoError
  /\ ~isLoading

\* C16: toggleCommentLike called while isAuthenticated is false changes no
\* node's likes_count or is_liked, issues no request and sets error to the
\* authentication-required message.
C16_UnauthenticatedLikeRefused ==
  [][ ( /\ ~isAuthenticated
        /\ ncalls' # ncalls
        /\ last'.op = "toggleCommentLike" ) =>
        /\ LikeStates(comments') = LikeStates(comments)
        /\ pending' = pending
        /\ error' = "You must be logged in to like comments"
    ]_vars

C16_Witness ==
  /\ last.op = "toggleCommentLike"
  /\ last.outcome = "unauthenticated"
  /\ last.target \in IdsOf(comments)
  /\ ~isAuthenticated
  /\ pending = <<>>
  /\ error = "You must be logged in to like comments"

IdSeq(cs) == [k \in 1..Len(NodeSeq(cs)) |-> NodeSeq(cs)[k].id]

\* C18: a new root comment goes to index 0 of the root list, a new reply to
\* the end of its parent's replies, and all nodes that were there keep their
\* order; a successful create puts the reconciled record where the
\* synthesized node stood and moves nothing.
C18_InsertionOrderKept ==
  [][ /\ \A content \in Contents, parentId \in ParentIds, t \in now..MaxClock :
           ( /\ isAuthenticated
             /\ parentId = NoParent \/ parentId \in IdsOf(comments)
             /\ addComment(content, parentId, t) ) =>
             LET o == optimisticCommentOf(content, parentId, t)
                 old == IdSeq(comments) IN
             /\ IF parentId = NoParent
                THEN comments'[1] = o
                ELSE LET replies == findComment(comments', parentId).replies IN
                     Len(replies) > 0 /\ replies[Len(replies)] = o
             /\ \E k \in 1..(Len(old) + 1) :
                  IdSeq(comments') =
                    SubSeq(old, 1, k - 1) \o << o.id >> \o SubSeq(old, k, Len(old))
      /\ \A i \in AddCalls :
           \A body \in CreateBodies(comments, pending[i].content, pending[i].parentId) :
             addCommentResume(i, "ok", body) =>
               /\ Len(IdSeq(comments')) = Len(IdSeq(comments))
               /\ \A k \in 1..Len(IdSeq(comments)) :
                    \/ IdSeq(comments')[k] = IdSeq(comments)[k]
                    \/ /\ IdSeq(comments)[k] = pending[i].optimisticComment.id
                       /\ IdSeq(comments')[k] = last'.ret.id
    ]_vars

\* C19: the step of an authenticated addComment or toggleCommentLike that
\* sends the request leaves a tree that already shows the synthesized node,
\* or the comment's negated is_liked: no request is in flight from the tree
\* as it was before the action.
C19_OptimisticUpdateBeforeRequest ==
  [][ /\ \A content \in Contents, parentId \in ParentIds, t \in now..MaxClock :
           ( /\ isAuthenticated
             /\ parentId = NoParent \/ parentId \in IdsOf(comments)
             /\ addComment(content, parentId, t)
             /\ Len(pending') = Len(pending) + 1 ) =>
             optimisticCommentOf(content, parentId, t) \in Nodes(comments')
      /\ \A commentId \in LikeIds :
           ( /\ isAuthenticated
             /\ commentId \in IdsOf(comments)
             /\ toggleCommentLike(commentId)
             /\ Len(pending') = Len(pending) + 1 ) =>
             findComment(comments', commentId).is_liked =
               ~findComment(comments, commentId).is_liked
    ]_vars

\* C20: the record a successful create leaves takes each of id, material_id,
\* user_id, username, content, created_at and updated_at from the server's
\* comment when that carries the field and from the synthesized comment when
\* it does not; its is_optimistic is false.
C20_MergePrefersServerFields ==
  [][ \A i \in AddCalls :
        \A body \in CreateBodies(comments, pending[i].content, pending[i].parentId) :
          addCommentResume(i, "ok", body) =>
            LET raw == RawComment(body)
                o == pending[i].optimisticComment
                r == last'.ret IN
            /\ \A f \in {"id", "material_id", "user_id", "username", "content",
                          "created_at", "updated_at"} :
                 r[f] = IF f \in DOMAIN raw THEN raw[f] ELSE o[f]
            /\ r.is_optimistic = FALSE
    ]_vars

\* C21: a backend comment that carries no material_id is normalised to a
\* comment whose material_id is the fallback it was given; its replies are
\* normalised with the parent's material_id as their fallback, at every depth.
RECURSIVE FallbackApplied(_, _, _)
FallbackApplied(raw, out, fallback) ==
  IsNull(raw) \/
    /\ out.material_id = IF "material_id" \in DOMAIN raw THEN raw.material_id
                          ELSE fallback
    /\ "replies" \in DOMAIN raw =>
         /\ Len(out.replies) = Len(raw.replies)
         /\ \A j \in 1..Len(raw.replies) :
              FallbackApplied(raw.replies[j], out.replies[j], out.material_id)

C21_MaterialIdFallsBack ==
  [][ \A i \in FetchCalls :
        \A shape \in ShapeNames, arr \in ListArrays, meta \in ListMetas :
          fetchCommentsResume(i, "ok", ListPayload(shape, arr, meta)) =>
            /\ Len(comments') = Len(arr)
            /\ \A k \in 1..Len(arr) :
                 FallbackApplied(arr[k], comments'[k], materialId)
    ]_vars

\* C22: when the like succeeds with a comment under data.comment, the target
\* node's likes_count and is_liked become the payload's values where the
\* payload carries them and stay what the tree showed where it does not.
C22_ServerLikeValuesWin ==
  [][ \A i \in LikeCalls :
        \A body \in LikeBodies(pending[i].commentId) :
          ( /\ "data" \in DOMAIN body
            /\ pending[i].commentId \in IdsOf(comments)
            /\ toggleCommentLikeResume(i, "ok", body) ) =>
            LET raw == body.data.comment
                shown == findComment(comments, pending[i].commentId)
                after == findComment(comments', pending[i].commentId) IN
            /\ after.likes_count =
                 IF "likes_count" \in DOMAIN raw THEN raw.likes_count
                 ELSE shown.likes_count
            /\ after.is_liked =
                 IF "is_liked" \in DOMAIN raw THEN raw.is_liked
                 ELSE shown.is_liked
    ]_vars

\* The forest with likes_count and is_liked of the node with this id blanked
RECURSIVE WithoutLikes(_, _)
WithoutLikes(cs, id) ==
  [k \in 1..Len(cs) |->
     LET c == [cs[k] EXCEPT !.replies = WithoutLikes(@, id)] IN
     IF c.id = id THEN [c EXCEPT !.likes_count = 0, !.is_liked = FALSE] ELSE c]

\* C23: no step of toggleCommentLike, whatever its outcome, adds or removes a
\* node or changes a replies sequence: apart from likes_count and is_liked of
\* the target node the tree after the step is the tree before it.
C23_ToggleKeepsTreeShape ==
  [][ ( /\ ncalls' # ncalls \/ Len(pending') < Len(pending)
        /\ last'.op \in {"toggleCommentLike", "toggleCommentLikeResume"} ) =>
        /\ IdsOf(comments') = IdsOf(comments)
        /\ WithoutLikes(comments', last'.target) = WithoutLikes(comments, last'.target)
    ]_vars

\* C24: when the like succeeds and the body carries no comment, the step that
\* handles the response changes neither the tree, which stays as the
\* optimistic update left it, nor error, which stays null.
C24_SuccessWithoutPayloadKeepsTree ==
  [][ \A i \in LikeCalls :
        \A body \in LikeBodies(pending[i].commentId) :
          ( /\ "data" \notin DOMAIN body
            /\ toggleCommentLikeResume(i, "ok", body) ) =>
            /\ comments' = comments
            /\ error' = error
    ]_vars

C24_Witness ==
  /\ last.op = "toggleCommentLikeResume"
  /\ last.outcome = "ok"
  /\ last.alone
  /\ last.target = 2
  /\ error = NoError
  /\ 2 \in IdsOf(comments)
  /\ findComment(comments, 2).is_liked
  /\ findComment(comments, 2).likes_count = 4

\* C25: when the create response arrives and no node of the tree carries the
\* synthesized id any more, the replace after a success and the removal after
\* a non-success response leave the tree as it is; the success sets no error.
C25_LateResponseIsNoOp ==
  [][ \A i \in AddCalls :
        pending[i].optimisticComment.id \notin IdsOf(comments) =>
          /\ \A body \in CreateBodies(comments, pending[i].content,
                                       pending[i].parentId) :
               addCommentResume(i, "ok", body) =>
                 comments' = comments /\ error' = error
          /\ addCommentResume(i, "http_error", jsNull) => comments' = comments
    ]_vars

C25_Witness ==
  /\ last.op = "addCommentResume"
  /\ last.outcome = "ok"
  /\ last.target = NoParent
  /\ ~IsNull(last.ret)
  /\ last.ret.id \notin IdsOf(comments)
  /\ \A n \in Nodes(comments) : n.id > 0
  /\ comments # <<>>

\* C26: toggleCommentLike with an id that no node of the tree carries leaves
\* the tree unchanged in its optimistic step, in its revert and in its
\* reconciliation, and a success sets no error.
C26_AbsentIdLeavesTree ==
  [][ /\ ( /\ ncalls' # ncalls \/ Len(pending') < Len(pending)
           /\ last'.op \in {"toggleCommentLike", "toggleCommentLikeResume"}
           /\ last'.target \notin IdsOf(comments) ) =>
           comments' = comments
      /\ \A i \in LikeCalls :
           \A body \in LikeBodies(pending[i].commentId) :
             ( /\ pending[i].commentId \notin IdsOf(comments)
               /\ toggleCommentLikeResume(i, "ok", body) ) =>
               error' = error
    ]_vars

C26_Witness ==
  /\ last.op = "toggleCommentLikeResume"
  /\ last.outcome = "ok"
  /\ last.target = 7
  /\ 7 \notin IdsOf(comments)
  /\ error = NoError
  /\ Len(comments) = 2

\* C27: totalComments is never negative, however submissions and list
\* responses interleave.
C27_TotalNeverNegative ==
  totalComments >= 0

\* C28: a handleRoomClick for a non-group room that fails after the room was
\* validated (no connection, join_chat timeout or error, rejected data fetch)
\* ends with currentRoom and currentRoomId null, error set to a message and
\* isLoading false, and no step of the call short of its success makes the
\* new room the current room
C28_FailedRoomClickClearsRoom ==
  [][ /\ ( /\ last'.op = "handleRoomClick"
           /\ last'.outcome = "failed"
           /\ last'.target \in SocketRoomIds
           /\ Len(clicks') < Len(clicks) )
         => /\ currentRoom' = NoRoom
            /\ currentRoomId' = NoRoom
            /\ chatError' # NoError
            /\ chatIsLoading' = FALSE
      /\ ( /\ last'.op = "handleRoomClick"
           /\ last'.outcome # "joined"
           /\ last'.target \in SocketRoomIds )
         => /\ currentRoom' \in {currentRoom, NoRoom}
            /\ currentRoomId' \in {currentRoomId, NoRoom} ]_vars

C28_Witness ==
  /\ last.op = "handleRoomClick"
  /\ last.outcome = "failed"
  /\ last.target \in SocketRoomIds
  /\ chatError = "Join timeout"
  /\ view = "chat"
  /\ currentRoom = NoRoom
  /\ ~chatIsLoading

\* What a switch between two socket rooms puts on the wire, in order
SwitchTrace == << "leave_chat", "rest_join", "join_chat", "fetch_data" >>

IsPrefix(s, t) == Len(s) <= Len(t) /\ SubSeq(t, 1, Len(s)) = s

\* C29: a handleRoomClick that switches from a room joined with join_chat to
\* another non-group room first emits leave_chat, issues the REST join only
\* after the acknowledgement or the 1-second timeout, then emits join_chat;
\* currentRoom and currentRoomId become the new room only in the step after
\* join_chat was acknowledged without an error
C29_LeaveThenJoin ==
  [][ /\ \A i \in 1..Len(clicks') :
           ( /\ clicks'[i].roomId \in SocketRoomIds
             /\ clicks'[i].currentRoomId \in SocketRoomIds
             /\ clicks'[i].pc # "waitConnect" )
           => /\ clicks'[i].trace # <<>>
              /\ IsPrefix(clicks'[i].trace, SwitchTrace)
              /\ clicks'[i].pc = "leaving" <=> clicks'[i].trace = << "leave_chat" >>
      /\ \A r \in SocketRoomIds :
           ( \/ currentRoom' = r /\ currentRoom # r
             \/ currentRoomId' = r /\ currentRoomId # r )
           => /\ currentRoom' = r
              /\ currentRoomId' = r
              /\ \E i \in 1..Len(clicks) :
                   /\ clicks[i].roomId = r
                   /\ clicks[i].pc = "fetchData"
                   /\ Len(clicks[i].trace) >= 2
                   /\ SubSeq(clicks[i].trace, Len(clicks[i].trace) - 1,
                             Len(clicks[i].trace)) = << "join_chat", "fetch_data" >>
                   /\ clicks' = Without(clicks, i) ]_vars

C29_Witness ==
  \E i \in 1..Len(clicks) :
    /\ clicks[i].currentRoomId = "1"
    /\ clicks[i].roomId = "2"
    /\ clicks[i].pc = "fetchData"
    /\ clicks[i].trace = SwitchTrace
    /\ currentRoom = "1"

\* C30: whenever the widget is open, not minimized and currentRoom is a room
\* R, unreadCount[R] is 0, under every interleaving of socket messages, room
\* switches and fetchUnreadCount responses
C30_CurrentRoomHasNoUnread ==
  (isOpen /\ ~isMinimized /\ currentRoom # NoRoom) => unreadCount[currentRoom] = 0

====
